---- MODULE Spec2Model ----
(***************************************************************************)
(* A model of flight_planner.py: the Flight/Itinerary data model, the      *)
(* route graph, the two heap-driven searches (find_earliest_itinerary and  *)
(* find_cheapest_itinerary), the flight loaders and run_compare.           *)
(*                                                                         *)
(* Python values are modelled as follows.  A Flight is a record with the   *)
(* dataclass's fields.  A heap entry (a Python tuple) is a record          *)
(* [key, airport, path]: key holds the tuple's leading integers            *)
(* (<<current_time>> for the earliest search, <<total_price,               *)
(* current_time>> for the cheapest one).  A call that may raise returns a  *)
(* record with an err field.                                               *)
(***************************************************************************)
EXTENDS Integers, Sequences, FiniteSets, TLC

VARIABLES
    flights,             \* the loaded flight list handed to build_graph
    graph,               \* build_graph(flights)
    start, dest,         \* the query's airports
    earliest_departure,  \* the query's earliest departure, minutes
    mode,                \* which search runs: "earliest" or "cheapest"
    cabin,               \* the cabin of a cheapest search
    heap,                \* the search's heap (a Python list used by heapq)
    visited,             \* the search's visited dict
    pc,                  \* "running", "returned", "none" or "error"
    result,              \* the returned Itinerary's flights (pc = "returned")
    expansions,          \* history: how often each airport was expanded
    pops,                \* history: number of heappop calls so far
    file,                \* the flight file a loader reads
    lineno,              \* number of the file's lines a loader has consumed
    args,                \* run_compare's arguments
    rows                 \* run_compare's list of ComparisonRow

vars == <<flights, graph, start, dest, earliest_departure, mode, cabin,
          heap, visited, pc, result, expansions, pops, file, lineno, args,
          rows>>

\* The variables of the searches, of the loaders and of run_compare.
searchVars == <<heap, visited, result, expansions, pops>>
queryVars == <<start, dest, earliest_departure, mode, cabin>>
loadVars == <<file, lineno>>
compareVars == <<args, rows>>

-----------------------------------------------------------------------------
(* Constants and types *)

MIN_LAYOVER_MINUTES == 60

Cabins == {"economy", "business", "first"}

MkFlight(o, d, n, dep, arr, e, b, f) ==
    [origin |-> o, dest |-> d, flight_number |-> n, depart |-> dep,
     arrive |-> arr, economy |-> e, business |-> b, first |-> f]

\* Flight.price_for: the cabin's price, or ValueError for an unknown cabin.
price_for(f, cab) ==
    IF cab = "economy" THEN [err |-> FALSE, val |-> f.economy]
    ELSE IF cab = "business" THEN [err |-> FALSE, val |-> f.business]
    ELSE IF cab = "first" THEN [err |-> FALSE, val |-> f.first]
    ELSE [err |-> TRUE, val |-> 0]

\* Itinerary.arrive_time and Itinerary.total_price of a non-empty leg list.
arrive_time(p) == p[Len(p)].arrive

RECURSIVE SumPrices(_, _, _)
SumPrices(p, cab, i) ==
    IF i > Len(p) THEN 0 ELSE price_for(p[i], cab).val + SumPrices(p, cab, i + 1)

total_price(p, cab) == SumPrices(p, cab, 1)

-----------------------------------------------------------------------------
(* The inputs the model draws from *)

Airports == {"A", "B", "C"}

\* The flights datasets are drawn from: the A/B/C scenario of the
\* specification (AB, BC, AC, and BC leaving at 10:30), a second A->B flight
\* that ties with AB on arrival time and prices, a cheap A->B flight that
\* arrives late, and a free leg back from B to A.
AB     == MkFlight("A", "B", "F1", 480, 600, 100, 200, 300)
BC     == MkFlight("B", "C", "F2", 660, 780, 50, 100, 150)
AC     == MkFlight("A", "C", "F3", 540, 900, 200, 250, 300)
BC1030 == MkFlight("B", "C", "F2", 630, 780, 50, 100, 150)
AB2    == MkFlight("A", "B", "F5", 470, 600, 100, 200, 300)
ABlate == MkFlight("A", "B", "F6", 480, 720, 10, 20, 30)
BA     == MkFlight("B", "A", "F7", 660, 720, 0, 0, 0)

FlightUniverse == {AB, BC, AC, BC1030, AB2, ABlate, BA}

MaxFlights == 3

Datasets == UNION {[1..n -> FlightUniverse] : n \in 0..MaxFlights}

DepartureTimes == {420, 500}

CabinInputs == Cabins \cup {"premium"}

-----------------------------------------------------------------------------
(* Graph construction *)

RECURSIVE OutboundFrom(_, _, _)
OutboundFrom(fs, a, i) ==
    IF i > Len(fs) THEN <<>>
    ELSE IF fs[i].origin = a THEN <<fs[i]>> \o OutboundFrom(fs, a, i + 1)
    ELSE OutboundFrom(fs, a, i + 1)

\* build_graph: origin -> its flights in input order; an airport without
\* outbound flights has no entry.
build_graph(fs) ==
    [a \in {fs[i].origin : i \in 1..Len(fs)} |-> OutboundFrom(fs, a, 1)]

\* graph.get(airport, [])
graph_get(g, a) == IF a \in DOMAIN g THEN g[a] ELSE <<>>

-----------------------------------------------------------------------------
(* Python's ordering of heap entries *)

\* str < str on the one-letter airport codes: by code point.
Ord(a) == CASE a = "A" -> 65 [] a = "B" -> 66 [] a = "C" -> 67

RECURSIVE FirstDiff(_, _, _)
FirstDiff(p, q, i) ==
    IF i > Len(p) \/ i > Len(q) THEN 0
    ELSE IF p[i] # q[i] THEN i
    ELSE FirstDiff(p, q, i + 1)

\* list < list on lists of Flight: the first unequal pair is compared with <,
\* which Flight (a dataclass without order=True) does not support: TypeError.
\* Without an unequal pair the shorter list is the smaller.
PathLt(p, q) ==
    IF FirstDiff(p, q, 1) = 0
    THEN [err |-> FALSE, val |-> Len(p) < Len(q)]
    ELSE [err |-> TRUE, val |-> FALSE]

\* tuple < tuple: the first unequal component decides.
ItemLt(x, y) ==
    LET i == FirstDiff(x.key, y.key, 1) IN
    IF i # 0 THEN [err |-> FALSE, val |-> x.key[i] < y.key[i]]
    ELSE IF x.airport # y.airport
    THEN [err |-> FALSE, val |-> Ord(x.airport) < Ord(y.airport)]
    ELSE PathLt(x.path, y.path)

-----------------------------------------------------------------------------
(* heapq: positions are Python's 0-based ones, h[pos + 1] is heap[pos] *)

RECURSIVE SiftDownLoop(_, _, _, _)
SiftDownLoop(h, startpos, pos, newitem) ==
    IF pos > startpos
    THEN LET parentpos == (pos - 1) \div 2
             parent == h[parentpos + 1]
             c == ItemLt(newitem, parent)
         IN IF c.err THEN [err |-> TRUE, heap |-> h]
            ELSE IF c.val
            THEN SiftDownLoop([h EXCEPT ![pos + 1] = parent], startpos,
                              parentpos, newitem)
            ELSE [err |-> FALSE, heap |-> [h EXCEPT ![pos + 1] = newitem]]
    ELSE [err |-> FALSE, heap |-> [h EXCEPT ![pos + 1] = newitem]]

siftdown(h, startpos, pos) == SiftDownLoop(h, startpos, pos, h[pos + 1])

RECURSIVE SiftUpLoop(_, _, _, _, _)
SiftUpLoop(h, startpos, pos, childpos, newitem) ==
    IF childpos < Len(h)
    THEN LET rightpos == childpos + 1
             c == IF rightpos < Len(h)
                  THEN ItemLt(h[childpos + 1], h[rightpos + 1])
                  ELSE [err |-> FALSE, val |-> TRUE]
             cp == IF c.val THEN childpos ELSE rightpos
         IN IF c.err THEN [err |-> TRUE, heap |-> h]
            ELSE SiftUpLoop([h EXCEPT ![pos + 1] = h[cp + 1]], startpos, cp,
                            2 * cp + 1, newitem)
    ELSE siftdown([h EXCEPT ![pos + 1] = newitem], startpos, pos)

siftup(h, pos) == SiftUpLoop(h, pos, pos, 2 * pos + 1, h[pos + 1])

heappush(h, item) == siftdown(Append(h, item), 0, Len(h))

heappop(h) ==
    LET lastelt == h[Len(h)]
        rest == SubSeq(h, 1, Len(h) - 1)
    IN IF rest # <<>>
       THEN LET r == siftup([rest EXCEPT ![1] = lastelt], 0)
            IN [err |-> r.err, item |-> h[1], heap |-> r.heap]
       ELSE [err |-> FALSE, item |-> lastelt, heap |-> rest]

-----------------------------------------------------------------------------
(* The searches *)

\* layover_ok without the minimum layover.
layover_ok_no_minimum(f, current_time, path) == f.depart >= current_time

\* layover_ok with a layover that must exceed the minimum.
layover_ok_strict(f, current_time, path) ==
    IF path = <<>> THEN f.depart >= current_time
    ELSE f.depart > current_time + MIN_LAYOVER_MINUTES

layover_ok(f, current_time, path) ==
    IF path = <<>> THEN f.depart >= current_time
    ELSE f.depart >= current_time + MIN_LAYOVER_MINUTES

\* The for loop of find_earliest_itinerary: push every outbound flight that
\* can be boarded.
RECURSIVE PushEarliest(_, _, _, _, _)
PushEarliest(h, fs, i, current_time, path) ==
    IF i > Len(fs) THEN [err |-> FALSE, heap |-> h]
    ELSE IF layover_ok(fs[i], current_time, path)
    THEN LET r == heappush(h, [key |-> <<fs[i].arrive>>,
                               airport |-> fs[i].dest,
                               path |-> Append(path, fs[i])])
         IN IF r.err THEN r
            ELSE PushEarliest(r.heap, fs, i + 1, current_time, path)
    ELSE PushEarliest(h, fs, i + 1, current_time, path)

\* The for loop of find_cheapest_itinerary.
RECURSIVE PushCheapest(_, _, _, _, _, _, _)
PushCheapest(h, fs, i, total, current_time, path, cab) ==
    IF i > Len(fs) THEN [err |-> FALSE, heap |-> h]
    ELSE IF layover_ok(fs[i], current_time, path)
    THEN LET p == price_for(fs[i], cab)
             r == heappush(h, [key |-> <<total + p.val, fs[i].arrive>>,
                               airport |-> fs[i].dest,
                               path |-> Append(path, fs[i])])
         IN IF p.err THEN [err |-> TRUE, heap |-> h]
            ELSE IF r.err THEN r
            ELSE PushCheapest(r.heap, fs, i + 1, total, current_time, path, cab)
    ELSE PushCheapest(h, fs, i + 1, total, current_time, path, cab)

\* One pass of the while loop of a search in state s = [heap, visited, pc,
\* result, expanded]; expanded is the airport the pass expanded, if any.
\* Both searches share the loop's shape; they differ in the entry's key, in
\* the value visited is keyed by (the first key component) and in the pushes.
SearchState(h, v, p, r, e) ==
    [heap |-> h, visited |-> v, pc |-> p, result |-> r, expanded |-> e]

find_earliest_itinerary_pass(g, dst, s) ==
    IF s.heap = <<>> THEN SearchState(s.heap, s.visited, "none", <<>>, {})
    ELSE
    LET p == heappop(s.heap)
        current_time == p.item.key[1]
        airport == p.item.airport
        path == p.item.path
        pushed == PushEarliest(p.heap, graph_get(g, airport), 1,
                               current_time, path)
    IN IF p.err THEN SearchState(s.heap, s.visited, "error", <<>>, {})
       ELSE IF airport = dst /\ path # <<>>
       THEN SearchState(p.heap, s.visited, "returned", path, {})
       ELSE IF airport \in DOMAIN s.visited /\ s.visited[airport] <= current_time
       THEN SearchState(p.heap, s.visited, "running", <<>>, {})
       ELSE IF pushed.err
       THEN SearchState(p.heap, (airport :> current_time) @@ s.visited,
                        "error", <<>>, {airport})
       ELSE SearchState(pushed.heap, (airport :> current_time) @@ s.visited,
                        "running", <<>>, {airport})

find_cheapest_itinerary_pass(g, dst, cab, s) ==
    IF s.heap = <<>> THEN SearchState(s.heap, s.visited, "none", <<>>, {})
    ELSE
    LET p == heappop(s.heap)
        total == p.item.key[1]
        current_time == p.item.key[2]
        airport == p.item.airport
        path == p.item.path
        pushed == PushCheapest(p.heap, graph_get(g, airport), 1, total,
                               current_time, path, cab)
    IN IF p.err THEN SearchState(s.heap, s.visited, "error", <<>>, {})
       ELSE IF airport = dst /\ path # <<>>
       THEN SearchState(p.heap, s.visited, "returned", path, {})
       ELSE IF airport \in DOMAIN s.visited /\ s.visited[airport] <= total
       THEN SearchState(p.heap, s.visited, "running", <<>>, {})
       ELSE IF pushed.err
       THEN SearchState(p.heap, (airport :> total) @@ s.visited,
                        "error", <<>>, {airport})
       ELSE SearchState(pushed.heap, (airport :> total) @@ s.visited,
                        "running", <<>>, {airport})

NoVisited == [a \in {} |-> 0]

\* The state a search enters its while loop in.
find_earliest_itinerary_entry(st, ed) ==
    SearchState(<<[key |-> <<ed>>, airport |-> st, path |-> <<>>]>>,
                NoVisited, "running", <<>>, {})

find_cheapest_itinerary_entry(st, ed) ==
    SearchState(<<[key |-> <<0, ed>>, airport |-> st, path |-> <<>>]>>,
                NoVisited, "running", <<>>, {})

\* A search run to its end: the while loop from a state on.
RECURSIVE RunEarliest(_, _, _)
RunEarliest(g, dst, s) ==
    IF s.pc # "running" THEN s
    ELSE RunEarliest(g, dst, find_earliest_itinerary_pass(g, dst, s))

RECURSIVE RunCheapest(_, _, _, _)
RunCheapest(g, dst, cab, s) ==
    IF s.pc # "running" THEN s
    ELSE RunCheapest(g, dst, cab, find_cheapest_itinerary_pass(g, dst, cab, s))

find_earliest_itinerary_call(g, st, dst, ed) ==
    RunEarliest(g, dst, find_earliest_itinerary_entry(st, ed))

find_cheapest_itinerary_call(g, st, dst, ed, cab) ==
    RunCheapest(g, dst, cab, find_cheapest_itinerary_entry(st, ed))

-----------------------------------------------------------------------------
(* Text as the loaders see it *)

(***************************************************************************)
(* A field of a line is modelled by what split(":") makes of it: a         *)
(* sequence of pieces, each an integer literal (isInt, with its value) or  *)
(* some other word.  "08:00" is <<8, 0>>, "100" is <<100>>, "ICN" is       *)
(* <<"ICN">>.  A line is modelled by what strip() and split() make of it:  *)
(* whether it starts with "#", and its fields.  A csv row's fields are in  *)
(* the order origin, dest, flight_number, depart, arrive, economy,         *)
(* business, first; a field the row lacks reads as None.                   *)
(***************************************************************************)
IntPiece(n) == [isInt |-> TRUE, val |-> n, word |-> ""]
WordPiece(w) == [isInt |-> FALSE, val |-> 0, word |-> w]

IntTok(n) == <<IntPiece(n)>>
WordTok(w) == <<WordPiece(w)>>
TimeTok(h, m) == <<IntPiece(h), IntPiece(m)>>
NoneTok == <<>>

MkLine(c, ps) == [comment |-> c, parts |-> ps]

\* The text of a one-word field.
TokText(tok) == tok[1].word

\* int(s): the value of an integer literal, ValueError otherwise (TypeError
\* for None).
int(tok) ==
    IF Len(tok) = 1 /\ tok[1].isInt THEN [err |-> FALSE, val |-> tok[1].val]
    ELSE [err |-> TRUE, val |-> 0]

parse_time(hhmm) ==
    IF Len(hhmm) # 2 THEN [err |-> TRUE, val |-> 0]
    ELSE LET hour == int(<<hhmm[1]>>)
             minute == int(<<hhmm[2]>>)
         IN IF hour.err \/ minute.err THEN [err |-> TRUE, val |-> 0]
            ELSE IF ~(0 <= hour.val /\ hour.val < 24
                      /\ 0 <= minute.val /\ minute.val < 60)
            THEN [err |-> TRUE, val |-> 0]
            ELSE [err |-> FALSE, val |-> hour.val * 60 + minute.val]

\* format_time, as the field parse_time reads back.
format_time(minutes) == TimeTok(minutes \div 60, minutes % 60)

NoFlight == MkFlight("", "", "", 0, 0, 0, 0, 0)

ParsedLine(e, n, f) == [err |-> e, none |-> n, flight |-> f]

\* The checks and the Flight construction the two loaders share: the times
\* are parsed and compared first, the prices converted last.
FlightOfFields(origin, dst, num, depart, arrive, econ, biz, first) ==
    LET depart_min == parse_time(depart)
        arrive_min == parse_time(arrive)
        e == int(econ)
        b == int(biz)
        f == int(first)
    IN IF depart_min.err \/ arrive_min.err THEN ParsedLine(TRUE, FALSE, NoFlight)
       ELSE IF arrive_min.val <= depart_min.val
       THEN ParsedLine(TRUE, FALSE, NoFlight)
       ELSE IF e.err \/ b.err \/ f.err THEN ParsedLine(TRUE, FALSE, NoFlight)
       ELSE ParsedLine(FALSE, FALSE,
                       MkFlight(TokText(origin), TokText(dst), TokText(num),
                                depart_min.val, arrive_min.val,
                                e.val, b.val, f.val))

parse_flight_line_txt(line) ==
    IF line.parts = <<>> \/ line.comment THEN ParsedLine(FALSE, TRUE, NoFlight)
    ELSE IF Len(line.parts) # 8 THEN ParsedLine(TRUE, FALSE, NoFlight)
    ELSE FlightOfFields(line.parts[1], line.parts[2], line.parts[3],
                        line.parts[4], line.parts[5], line.parts[6],
                        line.parts[7], line.parts[8])

\* row[column k] of a csv.DictReader row.
RowField(line, k) == IF k <= Len(line.parts) THEN line.parts[k] ELSE NoneTok

\* The body of load_flights_csv's for loop.  csv.DictReader skips a line
\* without any field; fields beyond the eighth are not read.
parse_row_csv(line) ==
    IF line.parts = <<>> THEN ParsedLine(FALSE, TRUE, NoFlight)
    ELSE FlightOfFields(RowField(line, 1), RowField(line, 2), RowField(line, 3),
                        RowField(line, 4), RowField(line, 5), RowField(line, 6),
                        RowField(line, 7), RowField(line, 8))

required_cols ==
    {"origin", "dest", "flight_number", "depart", "arrive", "economy",
     "business", "first"}

MkFile(sfx, names, ls) == [suffix |-> sfx, fieldnames |-> names, lines |-> ls]

LoadState(fl, n, p) == [flights |-> fl, lineno |-> n, pc |-> p]

\* One pass of load_flights_txt's for loop, or its return.
load_flights_txt_pass(f, s) ==
    IF s.lineno >= Len(f.lines) THEN LoadState(s.flights, s.lineno, "returned")
    ELSE LET r == parse_flight_line_txt(f.lines[s.lineno + 1])
         IN IF r.err THEN LoadState(s.flights, s.lineno + 1, "error")
            ELSE IF r.none THEN LoadState(s.flights, s.lineno + 1, "running")
            ELSE LoadState(Append(s.flights, r.flight), s.lineno + 1, "running")

\* The column check of load_flights_csv (before its first row), one pass of
\* its for loop, or its return.
load_flights_csv_pass(f, s) ==
    IF s.lineno = 0 /\ ~(required_cols \subseteq f.fieldnames)
    THEN LoadState(s.flights, s.lineno, "error")
    ELSE IF s.lineno >= Len(f.lines)
    THEN LoadState(s.flights, s.lineno, "returned")
    ELSE LET r == parse_row_csv(f.lines[s.lineno + 1])
         IN IF r.err THEN LoadState(s.flights, s.lineno + 1, "error")
            ELSE IF r.none THEN LoadState(s.flights, s.lineno + 1, "running")
            ELSE LoadState(Append(s.flights, r.flight), s.lineno + 1, "running")

\* str.lower on the suffixes the model uses.
Lower(sfx) == IF sfx = ".CSV" THEN ".csv" ELSE sfx

IsCsv(f) == Lower(f.suffix) = ".csv"

RECURSIVE RunLoad(_, _)
RunLoad(f, s) ==
    IF s.pc # "running" THEN s
    ELSE RunLoad(f, IF IsCsv(f) THEN load_flights_csv_pass(f, s)
                    ELSE load_flights_txt_pass(f, s))

\* load_flights: the loader the suffix selects, run to its end.
load_flights(f) == RunLoad(f, LoadState(<<>>, 0, "running"))

NoFile == MkFile("", {}, <<>>)

NoArgs == [flight_file |-> NoFile, origin |-> "", dest |-> "",
           departure_time |-> NoneTok]

-----------------------------------------------------------------------------
(* The searches as a state machine: one step per pass of the while loop *)

Init ==
    /\ flights \in Datasets
    /\ graph = build_graph(flights)
    /\ start \in Airports
    /\ dest \in Airports
    /\ earliest_departure \in DepartureTimes
    /\ \/ mode = "earliest" /\ cabin = "-"
       \/ mode = "cheapest" /\ cabin \in CabinInputs
    /\ heap = IF mode = "earliest"
              THEN find_earliest_itinerary_entry(start, earliest_departure).heap
              ELSE find_cheapest_itinerary_entry(start, earliest_departure).heap
    /\ visited = NoVisited
    /\ pc = "running"
    /\ result = <<>>
    /\ expansions = [a \in Airports |-> 0]
    /\ pops = 0
    /\ file = NoFile
    /\ lineno = 0
    /\ args = NoArgs
    /\ rows = <<>>

Current == SearchState(heap, visited, pc, result, {})

Apply(s) ==
    /\ heap' = s.heap
    /\ visited' = s.visited
    /\ pc' = s.pc
    /\ result' = s.result
    /\ expansions' = [a \in Airports |->
                        IF a \in s.expanded THEN expansions[a] + 1
                        ELSE expansions[a]]
    /\ pops' = IF heap = <<>> THEN pops ELSE pops + 1
    /\ UNCHANGED <<flights, graph, queryVars, loadVars, compareVars>>

find_earliest_itinerary ==
    /\ mode = "earliest"
    /\ pc = "running"
    /\ Apply(find_earliest_itinerary_pass(graph, dest, Current))

find_cheapest_itinerary ==
    /\ mode = "cheapest"
    /\ pc = "running"
    /\ Apply(find_cheapest_itinerary_pass(graph, dest, cabin, Current))

Next == find_earliest_itinerary \/ find_cheapest_itinerary

Spec == Init /\ [][Next]_vars

-----------------------------------------------------------------------------
(* The loaders as a state machine: one step per line of the file *)

\* The fields lines are made of: times in and out of range and misshapen
\* ("0800", "08:00:00", "xx:00"), prices that are positive, zero, negative
\* and not numbers.
TimeToks ==
    {TimeTok(8, 0), TimeTok(10, 0), TimeTok(23, 59), TimeTok(24, 0),
     TimeTok(9, 60), TimeTok(-1, 30), IntTok(800),
     <<IntPiece(8), IntPiece(0), IntPiece(0)>>,
     <<WordPiece("xx"), IntPiece(0)>>}

PriceToks == {IntTok(100), IntTok(0), IntTok(-100), WordTok("abc")}

DataLine(dep, arr, e, b, f) ==
    MkLine(FALSE, <<WordTok("A"), WordTok("B"), WordTok("F1"), dep, arr, e, b, f>>)

\* Lines with every pair of times, lines with every triple of prices, a line
\* of seven fields, one of nine, a comment and a blank line.
LoadLines ==
    {DataLine(d, a, IntTok(100), IntTok(200), IntTok(300)) :
        d \in TimeToks, a \in TimeToks}
    \cup {DataLine(TimeTok(8, 0), TimeTok(10, 0), e, b, f) :
        e \in PriceToks, b \in PriceToks, f \in PriceToks}
    \cup {MkLine(FALSE, <<WordTok("A"), WordTok("B"), WordTok("F1"),
                          TimeTok(8, 0), TimeTok(10, 0), IntTok(100),
                          IntTok(200)>>),
          MkLine(FALSE, <<WordTok("A"), WordTok("B"), WordTok("F1"),
                          TimeTok(8, 0), TimeTok(10, 0), IntTok(100),
                          IntTok(200), IntTok(300), WordTok("x")>>),
          MkLine(TRUE, <<WordTok("#"), WordTok("note")>>),
          MkLine(FALSE, <<>>)}

MaxLines == 2

Suffixes == {".txt", ".csv", ".CSV"}

Headers == {required_cols, required_cols \ {"first"}}

LoadFiles ==
    {MkFile(sfx, IF Lower(sfx) = ".csv" THEN h ELSE {}, ls) :
        sfx \in Suffixes, h \in Headers,
        ls \in UNION {[1..n -> LoadLines] : n \in 0..MaxLines}}

InitLoad ==
    /\ file \in LoadFiles
    /\ lineno = 0
    /\ flights = <<>>
    /\ pc = "running"
    /\ graph = build_graph(<<>>)
    /\ start = "" /\ dest = "" /\ earliest_departure = 0
    /\ mode = "load" /\ cabin = "-"
    /\ heap = <<>> /\ visited = NoVisited /\ result = <<>>
    /\ expansions = [a \in Airports |-> 0] /\ pops = 0
    /\ args = NoArgs /\ rows = <<>>

ApplyLoad(s) ==
    /\ flights' = s.flights
    /\ lineno' = s.lineno
    /\ pc' = s.pc
    /\ UNCHANGED <<file, graph, queryVars, searchVars, compareVars>>

load_flights_txt ==
    /\ pc = "running"
    /\ ~IsCsv(file)
    /\ ApplyLoad(load_flights_txt_pass(file, LoadState(flights, lineno, pc)))

load_flights_csv ==
    /\ pc = "running"
    /\ IsCsv(file)
    /\ ApplyLoad(load_flights_csv_pass(file, LoadState(flights, lineno, pc)))

NextLoad == load_flights_txt \/ load_flights_csv

SpecLoad == InitLoad /\ [][NextLoad]_vars

-----------------------------------------------------------------------------
(* run_compare as a state machine: one step per statement or loop pass *)

\* ComparisonRow; an absent cabin is "None", an absent itinerary has
\* is_none set.
ComparisonRow(m, cab, itin, note) ==
    [mode |-> m, cabin |-> cab, itinerary |-> itin, note |-> note]

ItineraryOf(s) ==
    IF s.pc = "returned" THEN [is_none |-> FALSE, flights |-> s.result]
    ELSE [is_none |-> TRUE, flights |-> <<>>]

NoteOf(s) == IF s.pc = "returned" THEN "" ELSE "(no valid itinerary)"

\* f"Cheapest ({cabin.capitalize()})"
CheapestLabel(cab) ==
    CASE cab = "economy" -> "Cheapest (Economy)"
      [] cab = "business" -> "Cheapest (Business)"
      [] cab = "first" -> "Cheapest (First)"

\* The line a flight is read from.
LineOf(f) ==
    MkLine(FALSE, <<WordTok(f.origin), WordTok(f.dest), WordTok(f.flight_number),
                    format_time(f.depart), format_time(f.arrive),
                    IntTok(f.economy), IntTok(f.business), IntTok(f.first)>>)

\* run_compare reads files made of the lines of the flights of FlightUniverse
\* and of one line whose arrival is not after its departure.
CompareLines ==
    {LineOf(f) : f \in FlightUniverse}
    \cup {DataLine(TimeTok(10, 0), TimeTok(8, 0), IntTok(100), IntTok(200),
                   IntTok(300))}

MaxCompareLines == 3

CompareFiles ==
    {MkFile(sfx, IF sfx = ".csv" THEN required_cols ELSE {}, ls) :
        sfx \in {".txt", ".csv"},
        ls \in UNION {[1..n -> CompareLines] : n \in 0..MaxCompareLines}}

\* args.departure_time: 07:00, 08:20 and 24:00.
DepartureToks == {TimeTok(7, 0), TimeTok(8, 20), TimeTok(24, 0)}

InitCompare ==
    /\ args \in [flight_file : CompareFiles, origin : Airports,
                 dest : Airports, departure_time : DepartureToks]
    /\ rows = <<>>
    /\ mode = "setup"
    /\ pc = "running"
    /\ start = args.origin /\ dest = args.dest
    /\ earliest_departure = 0
    /\ cabin = "-"
    /\ flights = <<>>
    /\ graph = build_graph(<<>>)
    /\ file = args.flight_file /\ lineno = 0
    /\ heap = <<>> /\ visited = NoVisited /\ result = <<>>
    /\ expansions = [a \in Airports |-> 0] /\ pops = 0

\* earliest_departure = parse_time(...); flights = load_flights(...);
\* graph = build_graph(flights)
run_compare_setup ==
    /\ pc = "running" /\ mode = "setup"
    /\ LET t == parse_time(args.departure_time)
           l == load_flights(args.flight_file)
       IN IF t.err \/ l.pc = "error"
          THEN /\ pc' = "error"
               /\ UNCHANGED <<flights, graph, earliest_departure, mode, lineno>>
          ELSE /\ earliest_departure' = t.val
               /\ flights' = l.flights
               /\ lineno' = l.lineno
               /\ graph' = build_graph(l.flights)
               /\ mode' = "earliest"
               /\ pc' = "running"
    /\ UNCHANGED <<start, dest, cabin, file, searchVars, compareVars>>

\* The earliest search and its row.
run_compare_earliest ==
    /\ pc = "running" /\ mode = "earliest"
    /\ LET s == find_earliest_itinerary_call(graph, args.origin, args.dest,
                                             earliest_departure)
       IN IF s.pc = "error"
          THEN pc' = "error" /\ UNCHANGED <<rows, mode, cabin>>
          ELSE /\ rows' = Append(rows, ComparisonRow("Earliest arrival", "None",
                                                     ItineraryOf(s), NoteOf(s)))
               /\ mode' = "cheapest"
               /\ cabin' = "economy"
               /\ pc' = "running"
    /\ UNCHANGED <<flights, graph, start, dest, earliest_departure, args,
                   searchVars, loadVars>>

\* One pass of the loop over the cabins: a cheapest search and its row.
run_compare_cheapest ==
    /\ pc = "running" /\ mode = "cheapest"
    /\ LET s == find_cheapest_itinerary_call(graph, args.origin, args.dest,
                                             earliest_departure, cabin)
       IN IF s.pc = "error"
          THEN pc' = "error" /\ UNCHANGED <<rows, mode, cabin>>
          ELSE /\ rows' = Append(rows, ComparisonRow(CheapestLabel(cabin), cabin,
                                                     ItineraryOf(s), NoteOf(s)))
               /\ cabin' = CASE cabin = "economy" -> "business"
                             [] cabin = "business" -> "first"
                             [] cabin = "first" -> "first"
               /\ mode' = IF cabin = "first" THEN "print" ELSE "cheapest"
               /\ pc' = "running"
    /\ UNCHANGED <<flights, graph, start, dest, earliest_departure, args,
                   searchVars, loadVars>>

\* table = format_comparison_table(...); print(table)
run_compare_print ==
    /\ pc = "running" /\ mode = "print"
    /\ pc' = "done"
    /\ UNCHANGED <<flights, graph, queryVars, searchVars, loadVars, compareVars>>

NextCompare ==
    \/ run_compare_setup
    \/ run_compare_earliest
    \/ run_compare_cheapest
    \/ run_compare_print

SpecCompare == InitCompare /\ [][NextCompare]_vars

-----------------------------------------------------------------------------
(* What the claims speak of *)

FlightSet == {flights[i] : i \in 1..Len(flights)}

\* p is an itinerary the query allows: it leaves st no earlier than ed, ends
\* in dst, its legs connect and each later leg leaves at least 60 minutes
\* after the previous one arrived.
IsValidItinerary(p, st, dst, ed) ==
    /\ Len(p) >= 1
    /\ p[1].origin = st
    /\ p[Len(p)].dest = dst
    /\ p[1].depart >= ed
    /\ \A i \in 1..(Len(p) - 1) :
          /\ p[i].dest = p[i + 1].origin
          /\ p[i + 1].depart >= p[i].arrive + 60

\* Every itinerary the query allows.  Times grow along an itinerary, so no
\* flight occurs twice in one and its length is at most the number of flights.
ValidItineraries ==
    {p \in UNION {[1..n -> FlightSet] : n \in 1..Cardinality(FlightSet)} :
        IsValidItinerary(p, start, dest, earliest_departure)}

\* dst can be reached from st by a chain of one or more flights, whatever
\* their times.
RECURSIVE ReachSet(_, _)
ReachSet(S, n) ==
    IF n = 0 THEN S
    ELSE ReachSet(S \cup {f.dest : f \in {g \in FlightSet : g.origin \in S}}, n - 1)

StructurallyReachable(st, dst) ==
    dst \in ReachSet({f.dest : f \in {g \in FlightSet : g.origin = st}},
                     Cardinality(Airports))

Finished == pc # "running"

\* C1: a cheapest search on a query that allows some itinerary returns an
\* itinerary of the minimum total price for the cabin among the itineraries
\* the query allows.  Stated for the searches between two different airports
\* that end without raising: start = dest is C4's case, a raise is C5's.
C1_CheapestIsMinimal ==
    (/\ mode = "cheapest" /\ cabin \in Cabins
     /\ start # dest
     /\ pc \in {"returned", "none"}
     /\ ValidItineraries # {})
    => /\ pc = "returned"
       /\ \A p \in ValidItineraries :
             total_price(result, cabin) <= total_price(p, cabin)

\* C2: an earliest search, on a query that allows some itinerary, ends by
\* returning an itinerary of the minimum arrival time among the itineraries
\* the query allows.
C2_EarliestIsMinimal ==
    (mode = "earliest" /\ Finished /\ ValidItineraries # {})
    => /\ pc = "returned"
       /\ \A p \in ValidItineraries : arrive_time(result) <= arrive_time(p)

\* The same for the earliest searches that end without raising.
EarliestIsMinimalUnlessRaised ==
    (mode = "earliest" /\ pc \in {"returned", "none"} /\ ValidItineraries # {})
    => /\ pc = "returned"
       /\ \A p \in ValidItineraries : arrive_time(result) <= arrive_time(p)

\* C3: every itinerary either search returns is made of flights of the
\* dataset and is one the query allows: non-empty, from start to dest, first
\* leg no earlier than the earliest departure, every later leg at least 60
\* minutes after the previous arrival, legs connecting.
C3_ReturnedIsValid ==
    pc = "returned"
    => /\ \A i \in 1..Len(result) : result[i] \in FlightSet
       /\ IsValidItinerary(result, start, dest, earliest_departure)

C3_Witness ==
    /\ pc = "returned"
    /\ Len(result) = 2
    /\ result[2].depart = result[1].arrive + 60

\* C4: with start = dest neither search returns an itinerary.
C4_SameAirportReturnsNone == (start = dest) => pc # "returned"

\* C5: when dest cannot be reached from start by any chain of flights, a
\* search that has ended has returned None: it has not raised.
C5_UnreachableReturnsNone ==
    (Finished /\ ~StructurallyReachable(start, dest)) => pc = "none"

\* C6: a cheapest search for a cabin outside economy/business/first ends in
\* an error, never in an itinerary or in None.
C6_UnknownCabinRaises ==
    (mode = "cheapest" /\ cabin \notin Cabins /\ Finished) => pc = "error"

\* C9: the A/B/C scenario at earliest departure 07:00, for the earliest
\* search and the cheapest economy search from A to C.  With AB, BC and AC
\* the search returns AB, BC (a layover of exactly 60 minutes is accepted);
\* when BC leaves at 10:30 instead, AB followed by that flight is never
\* returned, and without AC the search returns None.
ScenarioQuery ==
    /\ start = "A" /\ dest = "C" /\ earliest_departure = 420
    /\ mode = "earliest" \/ (mode = "cheapest" /\ cabin = "economy")

C9_Scenario ==
    ScenarioQuery =>
        /\ (FlightSet = {AB, BC, AC} /\ Finished)
              => (pc = "returned" /\ result = <<AB, BC>>)
        /\ (FlightSet \in {{AB, BC1030, AC}, {AB, BC1030}})
              => result # <<AB, BC1030>>
        /\ (FlightSet = {AB, BC1030, AC} /\ Finished)
              => (pc = "returned" /\ result = <<AC>>)
        /\ (FlightSet = {AB, BC1030} /\ Finished) => pc = "none"

C9_Witness ==
    /\ ScenarioQuery
    /\ FlightSet = {AB, BC, AC}
    /\ mode = "cheapest"
    /\ pc = "returned"
    /\ result = <<AB, BC>>

\* C10: each airport is expanded at most once in a search, and a search that
\* has ended has returned an itinerary or None.
C10_RunsToCompletion ==
    /\ \A a \in Airports : expansions[a] <= 1
    /\ Finished => pc \in {"returned", "none"}

\* The part of C10 that does not depend on how a search ends.
ExpandedAtMostOnce == \A a \in Airports : expansions[a] <= 1

\* Every flight is pushed at most once, so a search pops at most once per
\* flight and once for its first entry.
PopsBounded == pops <= Len(flights) + 1

\* A Flight as the data source must deliver it: arrival after departure,
\* both times within the day, no negative price.
IsValidFlight(f) ==
    /\ f.arrive > f.depart
    /\ 0 <= f.depart /\ f.depart < 1440
    /\ 0 <= f.arrive /\ f.arrive < 1440
    /\ f.economy >= 0 /\ f.business >= 0 /\ f.first >= 0

\* C7: every Flight of a list a loader returns has its arrival after its
\* departure, both times in [0, 1440) and no negative price: a record that
\* breaks one of these is not accepted, the load fails instead.
C7_LoadedFlightsValid ==
    (mode = "load" /\ pc = "returned")
    => \A i \in 1..Len(flights) : IsValidFlight(flights[i])

\* The part of C7 about the times.
LoadedTimesValid ==
    (mode = "load" /\ pc = "returned")
    => \A i \in 1..Len(flights) :
          /\ flights[i].arrive > flights[i].depart
          /\ 0 <= flights[i].depart /\ flights[i].arrive < 1440

\* C8: once the dataset is loaded, run_compare ends with four rows, in the
\* order Earliest arrival, Cheapest (Economy), Cheapest (Business), Cheapest
\* (First), the first without a cabin and the others with theirs, each with
\* the result of its search on the loaded graph and the query, and with a
\* note exactly when its itinerary is absent.
RowsAsClaimed ==
    LET q(cab) == find_cheapest_itinerary_call(graph, args.origin, args.dest,
                                               earliest_departure, cab)
        e == find_earliest_itinerary_call(graph, args.origin, args.dest,
                                          earliest_departure)
    IN /\ Len(rows) = 4
       /\ <<rows[1].mode, rows[2].mode, rows[3].mode, rows[4].mode>>
            = <<"Earliest arrival", "Cheapest (Economy)", "Cheapest (Business)",
                "Cheapest (First)">>
       /\ <<rows[1].cabin, rows[2].cabin, rows[3].cabin, rows[4].cabin>>
            = <<"None", "economy", "business", "first">>
       /\ rows[1].itinerary = ItineraryOf(e)
       /\ rows[2].itinerary = ItineraryOf(q("economy"))
       /\ rows[3].itinerary = ItineraryOf(q("business"))
       /\ rows[4].itinerary = ItineraryOf(q("first"))
       /\ \A i \in 1..4 : (rows[i].note # "") <=> rows[i].itinerary.is_none

C8_FourRows ==
    (mode \in {"earliest", "cheapest", "print"} /\ pc # "running")
    => (pc = "done" /\ RowsAsClaimed)

\* The same for the runs that reach the end of run_compare.
FourRowsWhenDone == (pc = "done") => RowsAsClaimed

====
